---- MODULE Spec2Model ----
(***************************************************************************)
(* Model of kopernikus_solution.py: class SimilarPhotoRemover.             *)
(*                                                                         *)
(*   load_input              groups the directory listing by the first     *)
(*                           three characters of each file name;           *)
(*   identify_similar_photos walks every camera's sequence, keeps a        *)
(*                           current image and collects unwanted images;   *)
(*   remove_similar_photos   deletes the unwanted images and counts.       *)
(*                                                                         *)
(* A file name is a sequence of characters, so that file_name[0:3] is a    *)
(* real slice.  A decoded image is a record of the file it was read from,  *)
(* its pixel content and its shape (rows, columns); None is what           *)
(* cv2.imread returns for a file it cannot decode.                         *)
(***************************************************************************)
EXTENDS Integers, Sequences, FiniteSets, TLC

\* ---------------------------------------------------------------- bounds
MaxFiles == 4
MaxPix == 1
MaxRuns == 2

\* ------------------------------------------------------ program constants
PrefixLen == 3
score_threshold_input == 750
min_contour_area_input == 50

\* Python's None, a value distinct from every image
None == [none |-> TRUE]

\* the camera prefixes of the file names of the dataset
CameraNames == { <<"c", "1", "0">>, <<"c", "2", "0">> }

Pixels == 0 .. MaxPix

\* the shape of the pictures of one content: pictures of even content are
\* 1 x 2, pictures of odd content 2 x 1, so that frames of different content
\* can differ in shape and identical frames never do
ShapeOf(p) == IF p % 2 = 0 THEN << 1, 2 >> ELSE << 2, 1 >>

\* what a file of the folder can hold: undecodable bytes, or a picture
FileData == {None} \cup { [pix |-> p, shape |-> ShapeOf(p)] : p \in Pixels }

VARIABLES
    folder,            \* os.listdir(self.folder) with each file's content
    pc,                \* position of __main__ in the pipeline
    dataset_keys,      \* keys of self.dataset_dict, in insertion order
    dataset_dict,      \* self.dataset_dict
    unwanted_images,   \* self.unwanted_images
    cam_idx,           \* position of "for camera in self.dataset_dict"
    image_idx,         \* image_idx of the inner loop (1-based)
    current_image,     \* current_image
    compared,          \* calls of compare_frames_change_detection so far
    decoded,           \* calls of cv2.imread so far
    rm_idx,            \* position of "for image_name in unwanted_images"
    num_removed_images,\* num_removed_images
    attempted,         \* calls of os.remove(image_path) so far
    run                \* how many times the program has been started

vars == << folder, pc, dataset_keys, dataset_dict, unwanted_images, cam_idx,
           image_idx, current_image, compared, decoded, rm_idx,
           num_removed_images, attempted, run >>

\* ---------------------------------------------------------------- helpers
Min(a, b) == IF a < b THEN a ELSE b

Abs(x) == IF x < 0 THEN -x ELSE x

InSeq(x, s) == \E i \in 1 .. Len(s) : s[i] = x

\* file_name[0:3]
Camera(file_name) == SubSeq(file_name, 1, Min(PrefixLen, Len(file_name)))

\* os.listdir(self.folder)
ListDir(dir) == [i \in 1 .. Len(dir) |-> dir[i].name]

\* cv2.imread(os.path.join(self.folder, name)): None when the file is
\* missing or cannot be decoded
Imread(dir, name) ==
    IF \E i \in 1 .. Len(dir) : dir[i].name = name /\ dir[i].data # None
    THEN LET i == CHOOSE i \in 1 .. Len(dir) : dir[i].name = name
         IN  [name |-> name, pix |-> dir[i].data.pix,
              shape |-> dir[i].data.shape]
    ELSE None

\* cv2.resize(next_image, new_dim, interpolation=cv2.INTER_AREA) with
\* new_dim = (current_image.shape[1], current_image.shape[0]); dsize of
\* cv2.resize is (columns, rows)
Resize(image, new_dim) ==
    [image EXCEPT !.shape = << new_dim[2], new_dim[1] >>]

\* lines 112-116
ReshapeMutant(current, next) ==
    IF current.shape # next.shape
    THEN LET new_hight == current.shape[1]
             new_width == current.shape[2]
         IN  Resize(next, << new_hight, new_width >>)
    ELSE next

Reshape(current, next) ==
    IF current.shape # next.shape
    THEN LET new_hight == current.shape[2]
             new_width == current.shape[1]
         IN  Resize(next, << new_hight, new_width >>)
    ELSE next

\* preprocess_image_change_detection: blur and conversion to gray scale
preprocess_image_change_detection(image) ==
    [gray |-> image.pix, shape |-> image.shape]

\* compare_frames_change_detection: a non-negative measure of the change
\* between two prepared frames; one step of pixel content is worth exactly
\* the configured threshold, so scores below, at and above it occur
compare_frames_change_detection(prev_frame, next_frame, min_contour_area) ==
    Abs(prev_frame.gray - next_frame.gray) * score_threshold_input

\* if(score < score_threshold_input)
IsUnwantedMutant(score) == score <= score_threshold_input

IsUnwanted(score) == score < score_threshold_input

\* self.unwanted_images.append(image_idx_name)
AppendUnwantedMutant(list, name) == << name >> \o list

AppendUnwanted(list, name) == Append(list, name)

\* the unwanted list after an undecodable file: lines 98-100
UnwantedAfterDecodeFailureMutant(list, name) == list

UnwantedAfterDecodeFailureTwice(list, name) ==
    AppendUnwanted(AppendUnwanted(list, name), name)

UnwantedAfterDecodeFailure(list, name) == AppendUnwanted(list, name)

\* the unwanted list after the first decoded frame: lines 104-106
UnwantedAfterFirstFrameMutant(list, name) == AppendUnwanted(list, name)

UnwantedAfterFirstFrame(list, name) == list

\* one iteration of "for file_name in os.listdir": lines 44-48
AddFileMutant(dict, camera, file_name) ==
    IF camera \notin DOMAIN dict
    THEN dict @@ (camera :> << file_name >>)
    ELSE [dict EXCEPT ![camera] = Append(@, file_name)]

AddFile(dict, camera, file_name) ==
    IF camera \notin DOMAIN dict
    THEN dict @@ (camera :> << >>)
    ELSE [dict EXCEPT ![camera] = Append(@, file_name)]

\* current_image after a frame was found unwanted: lines 131-132, the
\* current image stays
CurrentAfterUnwantedMutant(current, next) == next

CurrentAfterUnwanted(current, next) == current

\* current_image at the start of a camera's walk: lines 86-88
FreshCurrentMutant(previous) == previous

FreshCurrent(previous) == None

\* the loop of lines 43-48 over the listing
RECURSIVE LoadLoop(_, _, _)
LoadLoop(names, keys, dict) ==
    IF names = << >>
    THEN [keys |-> keys, dict |-> dict]
    ELSE LET file_name == Head(names)
             camera == Camera(file_name)
         IN  LoadLoop(Tail(names),
                      IF camera \notin DOMAIN dict
                      THEN Append(keys, camera) ELSE keys,
                      AddFile(dict, camera, file_name))

\* num_removed_images after os.remove succeeded / raised
CountAfterRemoved(n) == n + 1

CountAfterException(n) == n - 1

\* the loop position after os.remove raised: "pass", the loop goes on
NextAfterExceptionMutant(i, n) == n + 1

NextAfterExceptionRetry(i, n) == i

NextAfterException(i, n) == i + 1

\* the folder after os.remove(image_path) succeeded
RemoveFileMutant(dir, name) == dir

RemoveFileOfCamera(dir, name) ==
    LET Other(f) == Camera(f.name) # Camera(name) IN SelectSeq(dir, Other)

RemoveFile(dir, name) ==
    LET Other(f) == f.name # name IN SelectSeq(dir, Other)

EmptyDict == [k \in {} |-> << >>]

\* the name of the file that lines 33-34 remove
MarkerName == << ".", "D", "S", "_", "S", "t", "o", "r", "e" >>

\* os.sep of the platform the program runs on
PathSeparators == { "\\", "/" }

\* lines 32-36: os.remove(self.folder + r"\.DS_Store").  Where the path
\* separator is the backslash the path names the entry .DS_Store of the
\* folder, which is removed when present (FileNotFoundError is passed over
\* when absent).  Elsewhere the backslash is an ordinary character and the
\* path names a file next to the folder, never an entry of it.
AfterMarkerRemoval(dir, sep) ==
    IF sep = "\\"
    THEN LET Other(f) == f.name # MarkerName IN SelectSeq(dir, Other)
    ELSE dir

\* what __main__ calls after load_input: lines 193-194
AfterLoadInputMutant == "remove_similar_photos"

AfterLoadInput == "identify_similar_photos"

\* ------------------------------------------------------------------- Init
\* A folder of up to MaxFiles files.  The i-th entry of the listing is named
\* <camera prefix> - <i>, so names are distinct, as names of one directory
\* are.
Init ==
    /\ \E n \in 0 .. MaxFiles :
         \E cams \in [1 .. n -> CameraNames] :
           \E data \in [1 .. n -> FileData] :
             folder = [i \in 1 .. n |->
                         [name |-> cams[i] \o << "-", i >>, data |-> data[i]]]
    /\ pc = "load_input"
    /\ dataset_keys = << >>
    /\ dataset_dict = EmptyDict
    /\ unwanted_images = << >>
    /\ cam_idx = 1
    /\ image_idx = 1
    /\ current_image = None
    /\ compared = << >>
    /\ decoded = << >>
    /\ rm_idx = 1
    /\ num_removed_images = 0
    /\ attempted = << >>
    /\ run = 1

\* ---------------------------------------------------------------- actions
\* load_input(): lines 32-48 (the prints change no state)
LoadInput ==
    /\ pc = "load_input"
    /\ \E sep \in PathSeparators :
         folder' = AfterMarkerRemoval(folder, sep)
    /\ LET r == LoadLoop(ListDir(folder'), << >>, EmptyDict)
       IN  /\ dataset_keys' = r.keys
           /\ dataset_dict' = r.dict
    /\ pc' = AfterLoadInput
    /\ UNCHANGED << run, unwanted_images, cam_idx, image_idx,
                    current_image, compared, decoded, rm_idx,
                    num_removed_images, attempted >>

\* identify_similar_photos(): line 80 and the entry of the camera loop
IdentifyBegin ==
    /\ pc = "identify_similar_photos"
    /\ unwanted_images' = << >>
    /\ cam_idx' = 1
    /\ image_idx' = 1
    /\ current_image' = None
    /\ compared' = << >>
    /\ decoded' = << >>
    /\ pc' = "walk"
    /\ UNCHANGED << run, folder, dataset_keys, dataset_dict, rm_idx,
                    num_removed_images, attempted >>

InCamera == pc = "walk" /\ cam_idx <= Len(dataset_keys)

camera == dataset_keys[cam_idx]

num_images == Len(dataset_dict[camera])

InImage == InCamera /\ image_idx <= num_images

image_idx_name == dataset_dict[camera][image_idx]

image == Imread(folder, image_idx_name)

\* lines 93-100: the file does not decode
DecodeFailure ==
    /\ InImage
    /\ image = None
    /\ decoded' = Append(decoded, image_idx_name)
    /\ unwanted_images' =
           UnwantedAfterDecodeFailure(unwanted_images, image_idx_name)
    /\ image_idx' = image_idx + 1
    /\ UNCHANGED << run, folder, pc, dataset_keys, dataset_dict, cam_idx,
                    current_image, compared, rm_idx, num_removed_images,
                    attempted >>

\* lines 93-106: the first decoded frame of the camera
FirstFrame ==
    /\ InImage
    /\ image # None
    /\ current_image = None
    /\ decoded' = Append(decoded, image_idx_name)
    /\ current_image' = image
    /\ unwanted_images' =
           UnwantedAfterFirstFrame(unwanted_images, image_idx_name)
    /\ image_idx' = image_idx + 1
    /\ UNCHANGED << run, folder, pc, dataset_keys, dataset_dict, cam_idx,
                    compared, rm_idx, num_removed_images, attempted >>

\* lines 93-136: a decoded frame is compared with the current image
CompareFrame ==
    /\ InImage
    /\ image # None
    /\ current_image # None
    /\ decoded' = Append(decoded, image_idx_name)
    /\ LET next_image == Reshape(current_image, image)
           current_image_gray ==
               preprocess_image_change_detection(current_image)
           next_image_gray == preprocess_image_change_detection(next_image)
           score == compare_frames_change_detection(
                        current_image_gray, next_image_gray,
                        min_contour_area_input)
       IN  /\ compared' = Append(compared,
                            [camera |-> camera,
                             current |-> current_image.name,
                             next |-> image_idx_name,
                             current_shape |-> current_image_gray.shape,
                             next_shape |-> next_image_gray.shape,
                             score |-> score])
           /\ IF IsUnwanted(score)
              THEN /\ unwanted_images' =
                          AppendUnwanted(unwanted_images, image_idx_name)
                   /\ current_image' =
                          CurrentAfterUnwanted(current_image, next_image)
              ELSE /\ unwanted_images' = unwanted_images
                   /\ current_image' = next_image
    /\ image_idx' = image_idx + 1
    /\ UNCHANGED << run, folder, pc, dataset_keys, dataset_dict, cam_idx,
                    rm_idx, num_removed_images, attempted >>

\* lines 83-88: the camera's sequence is exhausted, the next camera starts
NextCamera ==
    /\ InCamera
    /\ image_idx > num_images
    /\ cam_idx' = cam_idx + 1
    /\ image_idx' = 1
    /\ current_image' = FreshCurrent(current_image)
    /\ UNCHANGED << run, folder, pc, dataset_keys, dataset_dict, unwanted_images,
                    compared, decoded, rm_idx, num_removed_images,
                    attempted >>

\* line 139, then remove_similar_photos(): line 157
IdentifyEnd ==
    /\ pc = "walk"
    /\ cam_idx > Len(dataset_keys)
    /\ pc' = "remove_similar_photos"
    /\ rm_idx' = 1
    /\ num_removed_images' = 0
    /\ attempted' = << >>
    /\ UNCHANGED << run, folder, dataset_keys, dataset_dict, unwanted_images,
                    cam_idx, image_idx, current_image, compared, decoded >>

InRemove == pc = "remove_similar_photos" /\ rm_idx <= Len(unwanted_images)

image_name == unwanted_images[rm_idx]

\* lines 160-167: os.remove succeeds
RemoveSucceeds ==
    /\ InRemove
    /\ InSeq(image_name, ListDir(folder))
    /\ folder' = RemoveFile(folder, image_name)
    /\ num_removed_images' = CountAfterRemoved(num_removed_images)
    /\ attempted' = Append(attempted, [name |-> image_name, ok |-> TRUE])
    /\ rm_idx' = rm_idx + 1
    /\ UNCHANGED << run, pc, dataset_keys, dataset_dict, unwanted_images, cam_idx,
                    image_idx, current_image, compared, decoded >>

\* lines 160-170: os.remove raises (file absent, no permission, bad path)
RemoveRaises ==
    /\ InRemove
    /\ num_removed_images' = CountAfterException(num_removed_images)
    /\ attempted' = Append(attempted, [name |-> image_name, ok |-> FALSE])
    /\ rm_idx' = NextAfterException(rm_idx, Len(unwanted_images))
    /\ UNCHANGED << run, folder, pc, dataset_keys, dataset_dict, unwanted_images,
                    cam_idx, image_idx, current_image, compared, decoded >>

\* line 173: the walk over the unwanted images is over
RemoveEnd ==
    /\ pc = "remove_similar_photos"
    /\ rm_idx > Len(unwanted_images)
    /\ pc' = "done"
    /\ UNCHANGED << run, folder, dataset_keys, dataset_dict, unwanted_images,
                    cam_idx, image_idx, current_image, compared, decoded,
                    rm_idx, num_removed_images, attempted >>

Next ==
    \/ LoadInput
    \/ IdentifyBegin
    \/ DecodeFailure
    \/ FirstFrame
    \/ CompareFrame
    \/ NextCamera
    \/ IdentifyEnd
    \/ RemoveSucceeds
    \/ RemoveRaises
    \/ RemoveEnd

Spec == Init /\ [][Next]_vars

\* The two camera prefixes are interchangeable (no step looks at a prefix
\* other than to compare it with another), so the runs from the folders
\* whose first-listed file is of camera c10 stand for all runs.
InitLive ==
    /\ Init
    /\ Len(folder) > 0 => Camera(folder[1].name) = << "c", "1", "0" >>

\* the program is one thread that runs to its end: a step that can be taken
\* is taken
LiveSpec == InitLive /\ [][Next]_vars /\ WF_vars(Next)

\* A folder that also holds the file .DS_Store, at any place of the listing
InitMarker ==
    /\ \E n \in 1 .. MaxFiles :
         \E m \in 1 .. n :
           \E cams \in [1 .. n -> CameraNames] :
             \E data \in [1 .. n -> FileData] :
               folder = [i \in 1 .. n |->
                           IF i = m
                           THEN [name |-> MarkerName, data |-> None]
                           ELSE [name |-> cams[i] \o << "-", i >>,
                                 data |-> data[i]]]
    /\ pc = "load_input"
    /\ dataset_keys = << >>
    /\ dataset_dict = EmptyDict
    /\ unwanted_images = << >>
    /\ cam_idx = 1
    /\ image_idx = 1
    /\ current_image = None
    /\ compared = << >>
    /\ decoded = << >>
    /\ rm_idx = 1
    /\ num_removed_images = 0
    /\ attempted = << >>
    /\ run = 1

SpecMarker == InitMarker /\ [][Next]_vars

\* the program is started again on the folder the previous run has left
RunAgain ==
    /\ pc = "done"
    /\ run < MaxRuns
    /\ run' = run + 1
    /\ pc' = "load_input"
    /\ UNCHANGED << folder, dataset_keys, dataset_dict, unwanted_images,
                    cam_idx, image_idx, current_image, compared, decoded,
                    rm_idx, num_removed_images, attempted >>

NextRerun == Next \/ RunAgain

SpecRerun == Init /\ [][NextRerun]_vars

TypeOK ==
    /\ pc \in {"load_input", "identify_similar_photos", "walk",
               "remove_similar_photos", "done"}
    /\ Len(folder) <= MaxFiles
    /\ num_removed_images \in Int

\* ------------------------------------------------------ auxiliary notions
Threshold == score_threshold_input

IsPrefix(s, t) == Len(s) <= Len(t) /\ SubSeq(t, 1, Len(s)) = s

RECURSIVE IsSubseq(_, _)
IsSubseq(s, t) ==
    IF s = << >> THEN TRUE
    ELSE IF t = << >> THEN FALSE
    ELSE IF Head(s) = Head(t) THEN IsSubseq(Tail(s), Tail(t))
    ELSE IsSubseq(s, Tail(t))

NoDuplicates(s) == \A i, j \in 1 .. Len(s) : s[i] = s[j] => i = j

\* the catalog's sequences one after the other, in the order of the keys
RECURSIVE CatalogFrom(_)
CatalogFrom(i) ==
    IF i > Len(dataset_keys) THEN << >>
    ELSE dataset_dict[dataset_keys[i]] \o CatalogFrom(i + 1)

Detecting == pc \in {"walk", "remove_similar_photos", "done"}

Listing == ListDir(folder)

Prefixes == { Camera(Listing[i]) : i \in 1 .. Len(Listing) }

FirstOf(k) ==
    CHOOSE i \in 1 .. Len(Listing) :
        /\ Camera(Listing[i]) = k
        /\ \A j \in 1 .. i - 1 : Camera(Listing[j]) # k

FilesOf(k) == { i \in 1 .. Len(Listing) : Camera(Listing[i]) = k }

Successes == { i \in 1 .. Len(attempted) : attempted[i].ok }

AttemptedNames == [i \in 1 .. Len(attempted) |-> attempted[i].name]

\* ----------------------------------------------------------------- claims

\* C1: every compared frame whose score is below the threshold is on the
\* removal list and the next comparison of the camera is against the same
\* representative; a frame whose score is at or above the threshold is not
\* on the list and is the representative of the next comparison.
C1_ThresholdDecision ==
    \A i \in 1 .. Len(compared) :
        LET e == compared[i]
            rep == IF e.score < Threshold THEN e.current ELSE e.next
        IN  /\ (e.score < Threshold) <=> InSeq(e.next, unwanted_images)
            /\ (i < Len(compared) /\ compared[i + 1].camera = e.camera)
                   => compared[i + 1].current = rep
            /\ (i = Len(compared) /\ InCamera /\ camera = e.camera)
                   => current_image.name = rep

C1_Witness ==
    /\ pc = "remove_similar_photos"
    /\ Len(compared) = 2
    /\ compared[1].score < Threshold
    /\ compared[2].score = Threshold
    /\ compared[2].current = compared[1].current
    /\ unwanted_images = << compared[1].next >>

\* C2: a file that does not decode is appended to the removal list, the
\* current image is what it was (none, or the same representative), no
\* comparison is made, and the walk goes on with the camera's next file.
C2_DecodeFailure ==
    [][ (InImage /\ image = None) =>
            /\ unwanted_images' = Append(unwanted_images, image_idx_name)
            /\ current_image' = current_image
            /\ compared' = compared
            /\ cam_idx' = cam_idx
            /\ image_idx' = image_idx + 1
            /\ pc' = pc ]_vars

C2_Witness ==
    /\ pc = "walk"
    /\ current_image # None
    /\ decoded # << >>
    /\ Imread(folder, decoded[Len(decoded)]) = None
    /\ unwanted_images # << >>
    /\ unwanted_images[Len(unwanted_images)] = decoded[Len(decoded)]

\* C3: the first frame of a camera's sequence that decodes is never on the
\* removal list and never the candidate of a comparison; once read it is the
\* representative of the camera's first comparison; a camera whose sequence
\* is a single frame that decodes has no entry on the removal list.
C3_FirstFrameKept ==
    Detecting =>
      \A k \in DOMAIN dataset_dict :
        LET seq == dataset_dict[k]
            OfCamera == { i \in 1 .. Len(compared) : compared[i].camera = k }
        IN  /\ \A j \in 1 .. Len(seq) :
                 ( /\ Imread(folder, seq[j]) # None
                   /\ \A i \in 1 .. j - 1 : Imread(folder, seq[i]) = None )
                 => /\ ~ InSeq(seq[j], unwanted_images)
                    /\ \A i \in 1 .. Len(compared) : compared[i].next # seq[j]
                    /\ \A i \in OfCamera :
                         (\A h \in OfCamera : i <= h)
                             => compared[i].current = seq[j]
                    /\ ( /\ InSeq(seq[j], decoded)
                         /\ OfCamera = {}
                         /\ InCamera
                         /\ camera = k ) => current_image.name = seq[j]
            /\ (Len(seq) = 1 /\ Imread(folder, seq[1]) # None)
                 => \A i \in 1 .. Len(unwanted_images) :
                        Camera(unwanted_images[i]) # k

C3_Witness ==
    /\ pc = "remove_similar_photos"
    /\ rm_idx = 1
    /\ \E k \in DOMAIN dataset_dict :
         /\ Len(dataset_dict[k]) = 3
         /\ Imread(folder, dataset_dict[k][1]) = None
         /\ Imread(folder, dataset_dict[k][2]) # None
         /\ unwanted_images = << dataset_dict[k][1], dataset_dict[k][3] >>
         /\ Len(compared) = 1
         /\ compared[1].current = dataset_dict[k][2]

\* C4: the count reported by remove_similar_photos is the number of
\* deletions that succeeded.
C4_CountsSuccessfulDeletions ==
    pc = "done" => num_removed_images = Cardinality(Successes)

\* C5: deletion is attempted for every name of the removal list, in order,
\* also for the names that follow one whose deletion failed.
C5_EveryNameAttempted ==
    /\ pc = "remove_similar_photos" =>
           /\ rm_idx <= Len(unwanted_images) + 1
           /\ AttemptedNames = SubSeq(unwanted_images, 1, rm_idx - 1)
    /\ pc = "done" => AttemptedNames = unwanted_images

C5_Witness ==
    /\ pc = "done"
    /\ \E i \in 1 .. Len(attempted) - 1 :
         ~ attempted[i].ok /\ attempted[i + 1].ok

ScenarioC ==
    /\ Cardinality(Prefixes) = 2
    /\ \A k \in Prefixes :
         /\ Cardinality(FilesOf(k)) = 2
         /\ \A i, j \in FilesOf(k) :
              /\ folder[i].data # None
              /\ folder[i].data = folder[j].data
              /\ compare_frames_change_detection(
                     preprocess_image_change_detection(folder[i].data),
                     preprocess_image_change_detection(folder[j].data),
                     min_contour_area_input) < Threshold

\* C7: in Scenario C the removal list produced by load_input and
\* identify_similar_photos has two entries.
C7_ScenarioCRemovesTwo ==
    (pc = "remove_similar_photos" /\ rm_idx = 1 /\ ScenarioC)
        => Len(unwanted_images) = 2

\* C8: once detection is over, every file of the folder that does not decode
\* is on the removal list.
C8_UndecodableRemoved ==
    pc \in {"remove_similar_photos", "done"} =>
      \A i \in 1 .. Len(folder) :
          folder[i].data = None => InSeq(folder[i].name, unwanted_images)

\* C9: the removal list is a subsequence of the catalog's sequences taken
\* one after the other in the order of the camera keys.
C9_EvaluationOrder ==
    Detecting => IsSubseq(unwanted_images, CatalogFrom(1))

C9_Witness ==
    /\ pc = "remove_similar_photos"
    /\ \E i, j \in 1 .. Len(unwanted_images) :
         /\ i < j
         /\ Camera(unwanted_images[i]) # Camera(unwanted_images[j])
         /\ unwanted_images[i][PrefixLen + 2]
                > unwanted_images[j][PrefixLen + 2]

\* C10: while identify_similar_photos walks the catalog the removal list
\* only grows at its end, and no name is ever on it twice.
C10_AppendOnlyNoDuplicates ==
    /\ [][ pc = "walk" => IsPrefix(unwanted_images, unwanted_images') ]_vars
    /\ [] NoDuplicates(unwanted_images)

C10_Witness ==
    /\ pc = "walk"
    /\ Len(unwanted_images) = 2
    /\ Imread(folder, unwanted_images[1]) = None
    /\ Len(compared) = 1
    /\ compared[1].next = unwanted_images[2]

\* what the walk of lines 91-136 over one sequence alone puts on the removal
\* list, started with the given current image
RECURSIVE WalkAlone(_, _, _)
WalkAlone(dir, seq, current) ==
    IF seq = << >> THEN << >>
    ELSE LET name == Head(seq)
             img == Imread(dir, name)
         IN  IF img = None
             THEN << name >> \o WalkAlone(dir, Tail(seq), current)
             ELSE IF current = None
             THEN WalkAlone(dir, Tail(seq), img)
             ELSE LET nxt == Reshape(current, img)
                      score == compare_frames_change_detection(
                                   preprocess_image_change_detection(current),
                                   preprocess_image_change_detection(nxt),
                                   min_contour_area_input)
                  IN  IF score < Threshold
                      THEN << name >> \o WalkAlone(dir, Tail(seq), current)
                      ELSE WalkAlone(dir, Tail(seq), nxt)

\* the entries of the removal list that carry the camera key k
EntriesOf(k) ==
    LET Same(f) == Camera(f) = k IN SelectSeq(unwanted_images, Same)

\* C11: every camera's walk starts without a current image, no comparison
\* pairs frames of two cameras, and what a camera whose walk is over has put
\* on the removal list is what the walk of its own sequence alone, started
\* empty, yields - so the set of removal names does not depend on the order
\* of the cameras.
C11_CameraIndependence ==
    /\ (InCamera /\ image_idx = 1) => current_image = None
    /\ \A i \in 1 .. Len(compared) :
         /\ Camera(compared[i].current) = compared[i].camera
         /\ Camera(compared[i].next) = compared[i].camera
    /\ pc = "walk" =>
         \A i \in 1 .. Len(dataset_keys) :
             i < cam_idx =>
                 EntriesOf(dataset_keys[i]) =
                     WalkAlone(folder, dataset_dict[dataset_keys[i]], None)

C11_Witness ==
    /\ pc = "walk"
    /\ cam_idx = 3
    /\ Len(dataset_dict[dataset_keys[1]]) = 1
    /\ Len(dataset_dict[dataset_keys[2]]) = 1
    /\ Imread(folder, dataset_dict[dataset_keys[1]][1]) # None
    /\ Imread(folder, dataset_dict[dataset_keys[2]][1]) # None
    /\ Imread(folder, dataset_dict[dataset_keys[1]][1]).pix
           = Imread(folder, dataset_dict[dataset_keys[2]][1]).pix
    /\ unwanted_images = << >>

\* the removal list of a run started on the folder dir
RECURSIVE FreshFrom(_, _, _)
FreshFrom(dir, r, i) ==
    IF i > Len(r.keys) THEN << >>
    ELSE WalkAlone(dir, r.dict[r.keys[i]], None) \o FreshFrom(dir, r, i + 1)

FreshRun(dir) == FreshFrom(dir, LoadLoop(ListDir(dir), << >>, EmptyDict), 1)

\* every deletion of the previous run succeeded (attempted keeps the previous
\* run's calls until remove_similar_photos starts again)
PreviousRunClean ==
    run >= 2 /\ \A i \in 1 .. Len(attempted) : attempted[i].ok

\* C12: in a run that follows a run whose deletions all succeeded, the
\* removal list stays empty, and at the end of detection it is the list a
\* fresh run on the surviving files produces.
C12_SecondRunRemovesNothing ==
    (pc = "walk" /\ PreviousRunClean) =>
        /\ unwanted_images = << >>
        /\ cam_idx > Len(dataset_keys) => unwanted_images = FreshRun(folder)

C12_Witness ==
    /\ pc = "walk"
    /\ run = 2
    /\ PreviousRunClean
    /\ attempted # << >>
    /\ cam_idx > Len(dataset_keys)
    /\ compared # << >>

\* the order in which __main__ goes through the stages
StageOrder ==
    { << "load_input", "identify_similar_photos" >>,
      << "identify_similar_photos", "walk" >>,
      << "walk", "remove_similar_photos" >>,
      << "remove_similar_photos", "done" >> }

\* C13: the stages follow one another in the order load, detect, remove; the
\* folder changes only in remove_similar_photos, when the walk over every
\* camera is over; the catalog does not change once load_input has returned;
\* and until the removal starts every name of the catalog is in the folder.
C13_StagesInOrder ==
    /\ [][ /\ pc' # pc => << pc, pc' >> \in StageOrder
           /\ folder' # folder =>
                  /\ pc = "remove_similar_photos"
                  /\ cam_idx > Len(dataset_keys)
           /\ pc # "load_input" =>
                  /\ dataset_dict' = dataset_dict
                  /\ dataset_keys' = dataset_keys ]_vars
    /\ [] ( pc \in {"identify_similar_photos", "walk"} =>
              \A k \in DOMAIN dataset_dict :
                  \A j \in 1 .. Len(dataset_dict[k]) :
                      InSeq(dataset_dict[k][j], Listing) )

C13_Witness ==
    /\ pc = "done"
    /\ Len(dataset_keys) = 2
    /\ \E i \in 1 .. Len(attempted) : attempted[i].ok
    /\ \E k \in DOMAIN dataset_dict :
         \E j \in 1 .. Len(dataset_dict[k]) :
             ~ InSeq(dataset_dict[k][j], Listing)

\* C14: once load_input has returned, the file .DS_Store has given the
\* catalog neither a camera key nor an entry.
C14_MarkerNotInCatalog ==
    pc # "load_input" =>
        /\ Camera(MarkerName) \notin DOMAIN dataset_dict
        /\ \A k \in DOMAIN dataset_dict : ~ InSeq(MarkerName, dataset_dict[k])

\* the shape of the first frame of the sequence that decodes
RECURSIVE FirstShape(_, _)
FirstShape(dir, seq) ==
    IF seq = << >> THEN None
    ELSE IF Imread(dir, Head(seq)) # None THEN Imread(dir, Head(seq)).shape
    ELSE FirstShape(dir, Tail(seq))

\* C15: in every call of the scoring function the two frames have the same
\* (rows, columns), and the representative always has the shape of the
\* camera's first representative.
C15_ShapesMatch ==
    /\ \A i \in 1 .. Len(compared) :
         compared[i].current_shape = compared[i].next_shape
    /\ pc = "walk" =>
         \A i \in 1 .. Len(compared) :
             compared[i].current_shape =
                 FirstShape(folder, dataset_dict[compared[i].camera])
    /\ (InCamera /\ current_image # None) =>
           current_image.shape = FirstShape(folder, dataset_dict[camera])

C15_Witness ==
    /\ pc = "walk"
    /\ Len(compared) = 2
    /\ compared[2].camera = compared[1].camera
    /\ Imread(folder, compared[1].next).shape # compared[1].current_shape
    /\ compared[1].score >= Threshold
    /\ compared[2].current = compared[1].next
    /\ Imread(folder, compared[2].next).shape # compared[2].current_shape

\* C16: the current image, once set, stays set until the camera's sequence
\* is over; and whenever there is one, it is a frame of the current camera's
\* sequence that was already read, that decodes, and that is not on the
\* removal list.
C16_Representative ==
    /\ [][ ( /\ InCamera
             /\ current_image # None
             /\ pc' = pc
             /\ cam_idx' = cam_idx ) => current_image' # None ]_vars
    /\ [] ( current_image # None =>
              /\ InCamera
              /\ \E j \in 1 .. Len(dataset_dict[camera]) :
                   /\ j < image_idx
                   /\ dataset_dict[camera][j] = current_image.name
              /\ Imread(folder, current_image.name) # None
              /\ ~ InSeq(current_image.name, unwanted_images) )

C16_Witness ==
    /\ InCamera
    /\ image_idx > num_images
    /\ current_image # None
    /\ Len(compared) = 2
    /\ compared[1].score >= Threshold
    /\ compared[2].score < Threshold
    /\ current_image.name = compared[1].next

\* how often the frame was the candidate of a comparison
TimesCompared(name) ==
    Cardinality({ i \in 1 .. Len(compared) : compared[i].next = name })

\* the frame is the first frame of its camera's sequence that decodes
IsFirstDecoded(name) ==
    LET seq == dataset_dict[Camera(name)]
    IN  \E j \in 1 .. Len(seq) :
            /\ seq[j] = name
            /\ Imread(folder, name) # None
            /\ \A i \in 1 .. j - 1 : Imread(folder, seq[i]) = None

\* every call happened once: imread on the catalog's entries in order, the
\* scoring function on every decoded frame but the camera's first, os.remove
\* on the entries of the removal list in order
ExactlyOnce ==
    /\ Detecting =>
         /\ IsPrefix(decoded, CatalogFrom(1))
         /\ pc # "walk" => decoded = CatalogFrom(1)
    /\ pc = "walk" =>
         /\ \A i \in 1 .. Len(decoded) :
              TimesCompared(decoded[i]) =
                  IF /\ Imread(folder, decoded[i]) # None
                     /\ ~ IsFirstDecoded(decoded[i])
                  THEN 1 ELSE 0
         /\ \A i \in 1 .. Len(compared) : InSeq(compared[i].next, decoded)
    /\ pc = "remove_similar_photos" =>
         AttemptedNames = SubSeq(unwanted_images, 1, rm_idx - 1)
    /\ pc = "done" => AttemptedNames = unwanted_images

\* C17: the run reaches its end, and on the way every catalog entry is
\* decoded once, every decoded frame but the first of its camera is scored
\* once, and every entry of the removal list is passed to os.remove once,
\* whether the deletion succeeds or fails.
C17_TerminatesWithoutRetry ==
    /\ <> (pc = "done")
    /\ [] ExactlyOnce

C17_Witness ==
    /\ pc = "done"
    /\ Len(decoded) = 3
    /\ Len(compared) = 2
    /\ Len(attempted) = 2
    /\ ~ attempted[1].ok

\* the frame appears in a logged comparison
WasCompared(name) ==
    \E i \in 1 .. Len(compared) :
        compared[i].current = name \/ compared[i].next = name

Representatives ==
    { compared[i].current : i \in 1 .. Len(compared) }
    \cup { compared[i].next :
             i \in { j \in 1 .. Len(compared) :
                       compared[j].score >= Threshold } }
    \cup { decoded[i] :
             i \in { j \in 1 .. Len(decoded) :
                       /\ TimesCompared(decoded[j]) = 0
                       /\ ~ InSeq(decoded[j], unwanted_images) } }

Present(name) ==
    \E i \in 1 .. Len(folder) :
        folder[i].name = name /\ folder[i].data # None

\* C19: a step of remove_similar_photos takes from the folder at most the
\* file it names, which is on the removal list, and leaves every other file
\* as it is; every frame that was the current image is still in the folder
\* during and after the removal; and a camera whose sequence has a frame
\* that decodes has had a current image, so it keeps a decodable frame.
C19_OnlyListedFilesRemoved ==
    /\ [][ (pc = "remove_similar_photos" /\ folder' # folder) =>
             /\ InRemove
             /\ InSeq(image_name, unwanted_images)
             /\ Len(folder') = Len(folder) - 1
             /\ \A i \in 1 .. Len(folder) :
                    folder[i].name # image_name =>
                        \E j \in 1 .. Len(folder') : folder'[j] = folder[i]
         ]_vars
    /\ [] ( pc \in {"remove_similar_photos", "done"} =>
              /\ \A name \in Representatives : Present(name)
              /\ \A k \in DOMAIN dataset_dict :
                   (\E name \in Representatives : Camera(name) = k)
                       => \E j \in 1 .. Len(dataset_dict[k]) :
                              Present(dataset_dict[k][j]) )
    /\ [] ( (pc = "remove_similar_photos" /\ attempted = << >>) =>
              \A k \in DOMAIN dataset_dict :
                  (\E j \in 1 .. Len(dataset_dict[k]) :
                       Present(dataset_dict[k][j]))
                      => \E name \in Representatives : Camera(name) = k )

C19_Witness ==
    /\ pc = "done"
    /\ Len(attempted) = 1
    /\ attempted[1].ok
    /\ ~ InSeq(attempted[1].name, Listing)
    /\ Len(compared) = 2
    /\ compared[2].score >= Threshold
    /\ Cardinality(Representatives) = 2
    /\ Len(folder) = 3

====
